---- MODULE Spec2Model ----
(***************************************************************************)
(* Model of src/agents/qa_agent.py: the QA agent that runs ansible-lint on *)
(* a playbook, applies custom regex rules line by line, merges both        *)
(* finding lists and writes a JSON report.                                 *)
(*                                                                         *)
(* Texts (playbook content, lines, regex patterns) are sequences of        *)
(* one-character strings.  Python's None is the string "None" where the    *)
(* slot otherwise holds a string, and NoLine where it holds a line number. *)
(***************************************************************************)
EXTENDS Integers, Sequences, FiniteSets, TLC

\* ------------------------------------------------------------- bounds
\* Longest playbook text drawn for the scanner.
MaxLen == 3
\* Longest rule sequence drawn for the scanner.
MaxRules == 2
\* Longest JSON list drawn as the linter's standard output.
MaxItems == 2

\* ---------------------------------------------------------- constants
\* run_ansible_lint's sentinels and the exit statuses of the process.
LintNotFound == -1
LintSpawnError == -2
ExitFailure == 1
ExitSuccess == 0
\* The exit code main singles out as "likely locale issue".
LintLocaleError == 2
\* item.get("linenumber", None): None in a slot that holds a line number.
NoLine == -1

None == "None"
PlaybookPath == "site.yml"

\* ------------------------------------------------------------- texts
\* Characters of playbook texts: letters in both cases, a blank, and the
\* line breaks LF and CR (str.splitlines also breaks on CR and on CR LF).
ContentChars == {"a", "A", " ", "\n", "\r"}

RECURSIVE SeqsUpTo(_, _)
SeqsUpTo(S, n) ==
  IF n = 0 THEN {<<>>}
  ELSE LET shorter == SeqsUpTo(S, n - 1)
       IN  shorter \cup {Append(s, c) : s \in {t \in shorter : Len(t) = n - 1}, c \in S}

IsLineBreak(c) == c \in {"\n", "\r"}

\* str.splitlines(): breaks on LF, CR and CR LF; the breaks are dropped and
\* a text ending in a break has no empty last line.
RECURSIVE SplitFrom(_, _, _, _)
SplitFrom(T, i, cur, lines) ==
  IF i > Len(T) THEN (IF cur = <<>> THEN lines ELSE Append(lines, cur))
  ELSE IF T[i] = "\r" /\ i < Len(T) /\ T[i + 1] = "\n"
       THEN SplitFrom(T, i + 2, <<>>, Append(lines, cur))
  ELSE IF IsLineBreak(T[i])
       THEN SplitFrom(T, i + 1, <<>>, Append(lines, cur))
  ELSE SplitFrom(T, i + 1, Append(cur, T[i]), lines)

SplitLines(T) == SplitFrom(T, 1, <<>>, <<>>)

\* str.strip(): leading and trailing whitespace removed.
RECURSIVE LStrip(_)
LStrip(s) == IF s # <<>> /\ Head(s) = " " THEN LStrip(Tail(s)) ELSE s

RECURSIVE RStrip(_)
RStrip(s) ==
  IF s # <<>> /\ s[Len(s)] = " " THEN RStrip(SubSeq(s, 1, Len(s) - 1)) ELSE s

Strip(s) == RStrip(LStrip(s))

\* ------------------------------------------------------------- regex
\* Patterns are built from literal letters and "(".  No pattern character
\* closes a group, so re.compile rejects every pattern that holds a "("
\* ("missing ), unterminated subpattern").
IsValidRegex(p) == \A i \in 1..Len(p) : p[i] # "("

\* re.IGNORECASE: letters are compared folded to lower case.
Fold(c) == CASE c = "A" -> "a" [] c = "B" -> "b" [] OTHER -> c

MatchesAt(p, line, k) ==
  /\ k + Len(p) - 1 <= Len(line)
  /\ \A i \in 1..Len(p) : Fold(p[i]) = Fold(line[k + i - 1])

\* The offsets at which the (valid, literal) pattern matches the line.
MatchOffsets(p, line) == {k \in 1..(Len(line) + 1) : MatchesAt(p, line, k)}

\* re.search(pattern, line, re.IGNORECASE): raises re.error on an invalid
\* pattern whatever the line, else a match object or None.
ReSearch(p, line) ==
  IF ~IsValidRegex(p) THEN "re.error"
  ELSE IF MatchOffsets(p, line) # {} THEN "match"
  ELSE "none"

\* ------------------------------------------------------------- rules
RuleKeys == {"id", "pattern", "description", "severity"}

\* An element of the rules file's list.  kind is the JSON type of the
\* element; has is the set of required keys k for which Python's `k in rule`
\* is true (a key of a dict, a substring of a string); the other fields are
\* the values of a dict's keys.
Rule(id, pattern, severity) ==
  [kind |-> "dict", has |-> RuleKeys, id |-> id, pattern |-> pattern,
   description |-> "desc", severity |-> severity, patternIsStr |-> TRUE]

\* ----------------------------------------------------------- scanner
\* The finding dict appended at a match (lines 67-74).
CustomFinding(rule, line_num, line, playbook_path) ==
  [rule_id |-> rule.id, severity |-> rule.severity,
   description |-> rule.description, file |-> playbook_path,
   line |-> line_num, match |-> Strip(line)]

\* line_num = i + 1 for enumerate's 0-based i (line 63).
LineNum(i) == i + 1

\* findings.append(...) once re.search returned a match (lines 66-67): one
\* finding for the line, however many matches it holds.
RECURSIVE Repeat(_, _)
Repeat(x, n) == IF n = 0 THEN <<>> ELSE <<x>> \o Repeat(x, n - 1)

OnMatchPerOccurrence(findings, rule, line_num, line, playbook_path) ==
  findings \o Repeat(CustomFinding(rule, line_num, line, playbook_path),
                     Cardinality(MatchOffsets(rule.pattern, line)))
OnMatch(findings, rule, line_num, line, playbook_path) ==
  Append(findings, CustomFinding(rule, line_num, line, playbook_path))

\* The inner loop `for rule in rules` over one line (lines 64-79), from
\* rule j on.  raised: an exception other than re.error left the function.
RECURSIVE RuleLoop(_, _, _, _, _, _)

\* except re.error: ... continue (lines 76-79): on to the next rule.
OnReErrorBreak(line, line_num, rules, j, findings, playbook_path) ==
  [raised |-> FALSE, findings |-> findings]
OnReError(line, line_num, rules, j, findings, playbook_path) ==
  RuleLoop(line, line_num, rules, j + 1, findings, playbook_path)

RuleLoop(line, line_num, rules, j, findings, playbook_path) ==
  IF j > Len(rules) THEN [raised |-> FALSE, findings |-> findings]
  ELSE LET rule == rules[j] IN
    \* rule["pattern"] on a non-dict, or re.search on a non-string
    \* pattern: TypeError, which `except re.error` does not catch.
    IF rule.kind # "dict" \/ ~rule.patternIsStr
    THEN [raised |-> TRUE, findings |-> findings]
    ELSE LET r == ReSearch(rule.pattern, line) IN
      IF r = "re.error"
      THEN OnReError(line, line_num, rules, j, findings, playbook_path)
      ELSE IF r = "match"
      THEN RuleLoop(line, line_num, rules, j + 1,
                    OnMatch(findings, rule, line_num, line, playbook_path),
                    playbook_path)
      ELSE RuleLoop(line, line_num, rules, j + 1, findings, playbook_path)

\* The outer loop `for i, line in enumerate(content.splitlines())`
\* (line 62), from 0-based index i on.
RECURSIVE LineLoop(_, _, _, _, _)
LineLoop(lines, i, rules, findings, playbook_path) ==
  IF i >= Len(lines) THEN [raised |-> FALSE, findings |-> findings]
  ELSE LET r == RuleLoop(lines[i + 1], LineNum(i), rules, 1, findings,
                         playbook_path)
       IN  IF r.raised THEN r
           ELSE LineLoop(lines, i + 1, rules, r.findings, playbook_path)

\* apply_custom_rules(content, rules, playbook_path).
ApplyCustomRules(content, rules, playbook_path) ==
  LineLoop(SplitLines(content), 0, rules, <<>>, playbook_path)

\* -------------------------------------------------------- rule store
\* Python's `k in rule` for the four required keys (line 25): "ok" when all
\* hold, "invalid" when one does not (ValueError, line 26), "typeerror"
\* when the element supports no `in` at all (a number, null).
RuleStructure(rule) ==
  IF rule.kind \notin {"dict", "str"} THEN "typeerror"
  ELSE IF RuleKeys \subseteq rule.has THEN "ok"
  ELSE "invalid"

\* A rules file: state is what open/json.load meet ("missing",
\* "unreadable", "badjson" or "json"), top the JSON type of the top-level
\* value, elems the elements of a top-level list.
RulesFile(state, top, elems) == [state |-> state, top |-> top, elems |-> elems]

\* load_custom_rules(rules_path): every except branch ends in sys.exit(1)
\* (lines 29-40); exit tells that it was taken.
LoadCustomRules(file) ==
  IF file.state # "json" THEN [exit |-> TRUE, rules |-> <<>>]
  ELSE IF file.top # "list" THEN [exit |-> TRUE, rules |-> <<>>]
  ELSE IF \E k \in 1..Len(file.elems) : RuleStructure(file.elems[k]) # "ok"
       THEN [exit |-> TRUE, rules |-> <<>>]
  ELSE [exit |-> FALSE, rules |-> file.elems]

\* ------------------------------------------------------ linter adapter
Absent == "<absent>"
NonStr == "<non-string>"

\* An element of the JSON list ansible-lint prints.  t is "obj" for a JSON
\* object; rule is Absent, "null" or "dict"; id and severity are the values
\* under item["rule"]; Absent marks a missing key, NonStr a value that is
\* no string.
LintItem(t, rule, id, severity, message, filename, linenumber) ==
  [t |-> t, rule |-> rule, id |-> id, severity |-> severity,
   message |-> message, filename |-> filename, linenumber |-> linenumber]

\* What run_ansible_lint hands to the parser as stdout: kind is "none"
\* (None), "empty" (""), "text" (no JSON) or "json"; jt is the JSON type of
\* the decoded value and items the elements of a decoded list.
RawOutput(kind, jt, items) == [kind |-> kind, jt |-> jt, items |-> items]

\* str.upper() on the severities that occur.
Upper(s) == CASE s = "medium" -> "MEDIUM" [] s = "high" -> "HIGH" [] OTHER -> s

\* The .get and .upper calls of lines 110-118 raise AttributeError on an
\* item that is no dict, on "rule": null and on a non-string severity.
ItemRaises(item) ==
  \/ item.t # "obj"
  \/ item.rule = "null"
  \/ (item.rule = "dict" /\ item.severity = NonStr)

\* The issue dict of lines 120-126.
LintIssue(item, playbook_path) ==
  LET hasRule  == item.rule = "dict"
      rule_id  == IF hasRule /\ item.id # Absent THEN item.id ELSE "UnknownRuleID"
      severity == IF hasRule /\ item.severity # Absent THEN item.severity ELSE "medium"
  IN  [rule_id |-> "ansible-lint:" \o rule_id,
       description |-> IF item.message # Absent THEN item.message
                       ELSE "No description provided.",
       severity |-> Upper(severity),
       file |-> IF item.filename # Absent THEN item.filename ELSE playbook_path,
       line |-> item.linenumber]

\* for item in lint_results (lines 107-127): the except Exception of line
\* 133 sits outside the loop, so what was appended before the item that
\* raised stays in issues.
RECURSIVE ItemLoop(_, _, _, _)
ItemLoop(items, k, issues, playbook_path) ==
  IF k > Len(items) THEN issues
  ELSE IF ItemRaises(items[k]) THEN issues
  ELSE ItemLoop(items, k + 1, Append(issues, LintIssue(items[k], playbook_path)),
                playbook_path)

\* parse_ansible_lint_output(json_string, playbook_path).
ParseAnsibleLintOutput(json_string, playbook_path) ==
  IF json_string.kind \in {"none", "empty"} THEN <<>>
  ELSE IF json_string.kind = "text" THEN <<>>
  ELSE IF json_string.jt = "list"
       THEN ItemLoop(json_string.items, 1, <<>>, playbook_path)
  ELSE <<>>

\* ----------------------------------------------------- report assembler
\* report_status (line 149).
ReportStatusAlwaysPass(all_issues) == "PASS"
ReportStatus(all_issues) == IF all_issues = <<>> THEN "PASS" ELSE "FAIL"

\* The report dict of lines 152-157 (the timestamp is the clock's).
Report(playbook_path, all_issues) ==
  [playbook_path |-> playbook_path, status |-> ReportStatus(all_issues),
   issues |-> all_issues]

\* all_issues = ansible_lint_issues + custom_issues (line 309).
CombineCustomFirst(ansible_lint_issues, custom_issues) ==
  custom_issues \o ansible_lint_issues
CombineIssues(ansible_lint_issues, custom_issues) ==
  ansible_lint_issues \o custom_issues

\* =================================================== the environment
\* The playbook file on disk as os.path.exists and open see it.
PlaybookFile(exists, readable, content) ==
  [exists |-> exists, readable |-> readable, content |-> content]

PlaybookTexts ==
  { <<>>,
    <<"a">>,
    <<" ", "a", "A">>,
    <<"a", "\n", " ", "\r", "\n", "A">> }

PlaybookFiles ==
  {PlaybookFile(FALSE, FALSE, <<>>), PlaybookFile(TRUE, FALSE, <<>>)}
    \cup {PlaybookFile(TRUE, TRUE, c) : c \in PlaybookTexts}

\* Elements a rules file may hold.
RuleA == Rule("R1", <<"a">>, "HIGH")
RuleBadRegex == Rule("R2", <<"a", "(">>, "LOW")
RuleNoSeverity == [Rule("R3", <<"a">>, "HIGH") EXCEPT !.has = RuleKeys \ {"severity"}]
RuleNumPattern == [Rule("R4", <<>>, "HIGH") EXCEPT !.patternIsStr = FALSE]
\* The JSON string "id pattern description severity" and the string "x".
NonRule(kind, has) ==
  [kind |-> kind, has |-> has, id |-> None, pattern |-> <<>>,
   description |-> None, severity |-> None, patternIsStr |-> FALSE]
ElemKeyString == NonRule("str", RuleKeys)
ElemString == NonRule("str", {})
ElemNumber == NonRule("num", {})

RulesFiles ==
  { RulesFile("missing", "none", <<>>),
    RulesFile("unreadable", "none", <<>>),
    RulesFile("badjson", "none", <<>>),
    RulesFile("json", "dict", <<>>),
    RulesFile("json", "list", <<>>),
    RulesFile("json", "list", <<RuleA>>),
    RulesFile("json", "list", <<RuleA, RuleBadRegex>>),
    RulesFile("json", "list", <<RuleBadRegex, RuleA>>),
    RulesFile("json", "list", <<RuleA, RuleNoSeverity>>),
    RulesFile("json", "list", <<RuleNumPattern>>),
    RulesFile("json", "list", <<ElemKeyString>>),
    RulesFile("json", "list", <<ElemString>>),
    RulesFile("json", "list", <<RuleA, ElemNumber>>) }

NoRulesFile == RulesFile("unread", "none", <<>>)

\* Elements of the list ansible-lint may print.
LintItems ==
  { LintItem("obj", "dict", "yaml", "high", "msg", "roles/x.yml", 3),
    LintItem("obj", Absent, Absent, Absent, Absent, Absent, NoLine),
    LintItem("num", Absent, Absent, Absent, Absent, Absent, NoLine),
    LintItem("obj", "null", Absent, Absent, "msg", Absent, NoLine),
    LintItem("obj", "dict", "yaml", NonStr, "msg", Absent, 3) }

NoOutput == RawOutput("none", "none", <<>>)

\* The standard output of a linter that was executed (text=True: a str).
LintStdouts ==
  { RawOutput("empty", "none", <<>>),
    RawOutput("text", "none", <<>>),
    RawOutput("json", "dict", <<>>),
    RawOutput("json", "number", <<>>) }
    \cup {RawOutput("json", "list", l) : l \in SeqsUpTo(LintItems, MaxItems)}

\* The linter's own exit codes.
LintExitCodes == {ExitSuccess, ExitFailure, LintLocaleError}

\* run_ansible_lint(playbook_path): (stdout, stderr, returncode) of the
\* process, or the sentinels of lines 196 and 200 with stdout None.
RunAnsibleLintResults ==
  {[how |-> "ran", stdout |-> o, code |-> c] : o \in LintStdouts, c \in LintExitCodes}
    \cup { [how |-> "notfound", stdout |-> NoOutput, code |-> LintNotFound],
           [how |-> "spawnerror", stdout |-> NoOutput, code |-> LintSpawnError] }

\* What makedirs/open/json.dump of generate_report meet (lines 159-170).
ReportIO == {"ok", "makedirs_failed", "write_failed"}

\* ======================================================= the pipeline
VARIABLES
  pc,                  \* the statement of __main__ that runs next
  playbook,            \* the playbook file on disk
  rules_file,          \* the rules file load_custom_rules met
  lint_how,            \* how run_ansible_lint ended: ran, notfound, spawnerror
  lint_stdout, lint_exit_code,
  ansible_lint_issues, custom_rules, playbook_content, custom_issues,
  all_issues,
  report,              \* <<the dict generate_report built>>, <<>> before
  report_file,         \* <<the report on disk>>, <<>> when none was written
  called,              \* the functions __main__ has called so far
  exit_status          \* the process's exit status once pc = "exit"

vars ==
  <<pc, playbook, rules_file, lint_how, lint_stdout, lint_exit_code,
    ansible_lint_issues, custom_rules, playbook_content, custom_issues,
    all_issues, report, report_file, called, exit_status>>

lintVars == <<lint_how, lint_stdout, lint_exit_code, ansible_lint_issues>>
scanVars == <<custom_rules, playbook_content, custom_issues>>
reportVars == <<all_issues, report, report_file>>

\* The state once the arguments are parsed (line 253).
Init ==
  /\ pc = "check_playbook"
  /\ playbook \in PlaybookFiles
  /\ rules_file = NoRulesFile
  /\ lint_how = "notrun"
  /\ lint_stdout = NoOutput
  /\ lint_exit_code = ExitSuccess
  /\ ansible_lint_issues = <<>>
  /\ custom_rules = <<>>
  /\ playbook_content = <<>>
  /\ custom_issues = <<>>
  /\ all_issues = <<>>
  /\ report = <<>>
  /\ report_file = <<>>
  /\ called = {}
  /\ exit_status = ExitSuccess

\* sys.exit(1): SystemExit is no Exception, so the handler of line 320
\* lets it through.
SysExit(code) ==
  /\ pc' = "exit"
  /\ exit_status' = code

\* if not os.path.exists(playbook_file): sys.exit(1)  (lines 256-258).
PlaybookCheckSkipped(file) == TRUE
PlaybookFound(file) == file.exists

CheckPlaybook ==
  /\ pc = "check_playbook"
  /\ IF PlaybookFound(playbook)
     THEN pc' = "run_lint" /\ UNCHANGED exit_status
     ELSE SysExit(ExitFailure)
  /\ UNCHANGED <<playbook, rules_file, lintVars, scanVars, reportVars, called>>

\* lint_stdout, lint_stderr, lint_exit_code = run_ansible_lint(...)  (264).
RunAnsibleLint ==
  /\ pc = "run_lint"
  /\ \E r \in RunAnsibleLintResults :
       /\ lint_how' = r.how
       /\ lint_stdout' = r.stdout
       /\ lint_exit_code' = r.code
  /\ called' = called \cup {"run_ansible_lint"}
  /\ pc' = "parse_lint"
  /\ UNCHANGED <<playbook, rules_file, ansible_lint_issues, scanVars,
                 reportVars, exit_status>>

\* The if/elif chain on lint_exit_code (lines 271-283) only logs: whatever
\* the code, the rules are loaded next.
AfterLintAbortOnFailure(code) == IF code < 0 THEN "abort" ELSE "load_rules"
AfterLint(code) == "load_rules"

\* ansible_lint_issues = parse_ansible_lint_output(...)  (lines 268-285).
ParseLint ==
  /\ pc = "parse_lint"
  /\ ansible_lint_issues' = ParseAnsibleLintOutput(lint_stdout, PlaybookPath)
  /\ called' = called \cup {"parse_ansible_lint_output"}
  /\ IF AfterLint(lint_exit_code) = "abort"
     THEN SysExit(ExitFailure)
     ELSE pc' = AfterLint(lint_exit_code) /\ UNCHANGED exit_status
  /\ UNCHANGED <<playbook, rules_file, lint_how, lint_stdout, lint_exit_code,
                 scanVars, reportVars>>

\* custom_rules = load_custom_rules(custom_rules_file)  (lines 289-293).
LoadRules ==
  /\ pc = "load_rules"
  /\ \E f \in RulesFiles :
       LET r == LoadCustomRules(f) IN
       /\ rules_file' = f
       /\ IF r.exit
          THEN SysExit(ExitFailure) /\ UNCHANGED custom_rules
          ELSE /\ custom_rules' = r.rules
               /\ pc' = "read_playbook"
               /\ UNCHANGED exit_status
  /\ called' = called \cup {"load_custom_rules"}
  /\ UNCHANGED <<playbook, lintVars, playbook_content, custom_issues, reportVars>>

\* playbook_content = read_playbook_content(playbook_file)  (297-300): a
\* file that cannot be opened or decoded ends in sys.exit(1) (lines 50-55).
ReadPlaybook ==
  /\ pc = "read_playbook"
  /\ IF playbook.exists /\ playbook.readable
     THEN /\ playbook_content' = playbook.content
          /\ pc' = "apply_rules"
          /\ UNCHANGED exit_status
     ELSE SysExit(ExitFailure) /\ UNCHANGED playbook_content
  /\ called' = called \cup {"read_playbook_content"}
  /\ UNCHANGED <<playbook, rules_file, lintVars, custom_rules, custom_issues,
                 reportVars>>

\* custom_issues = apply_custom_rules(...)  (line 304); an exception it
\* lets out reaches the handler of lines 320-323: sys.exit(1).
ApplyRules ==
  /\ pc = "apply_rules"
  /\ LET r == ApplyCustomRules(playbook_content, custom_rules, PlaybookPath) IN
       IF r.raised
       THEN SysExit(ExitFailure) /\ UNCHANGED custom_issues
       ELSE /\ custom_issues' = r.findings
            /\ pc' = "combine"
            /\ UNCHANGED exit_status
  /\ called' = called \cup {"apply_custom_rules"}
  /\ UNCHANGED <<playbook, rules_file, lintVars, custom_rules,
                 playbook_content, reportVars>>

\* all_issues = ansible_lint_issues + custom_issues  (line 309).
Combine ==
  /\ pc = "combine"
  /\ all_issues' = CombineIssues(ansible_lint_issues, custom_issues)
  /\ pc' = "report"
  /\ UNCHANGED <<playbook, rules_file, lintVars, scanVars, report,
                 report_file, called, exit_status>>

\* generate_report(playbook_file, all_issues, output_report_path)  (313):
\* both except branches (lines 167-170) log and return normally.
GenerateReport ==
  /\ pc = "report"
  /\ report' = <<Report(PlaybookPath, all_issues)>>
  /\ \E io \in ReportIO :
       report_file' = IF io = "ok" THEN report' ELSE <<>>
  /\ called' = called \cup {"generate_report"}
  /\ pc' = "finish"
  /\ UNCHANGED <<playbook, rules_file, lintVars, scanVars, all_issues,
                 exit_status>>

\* "QA Agent finished successfully." and the end of the script (lines
\* 315-318): no sys.exit, so the interpreter exits with status 0.
Finish ==
  /\ pc = "finish"
  /\ SysExit(ExitSuccess)
  /\ UNCHANGED <<playbook, rules_file, lintVars, scanVars, reportVars, called>>

Next ==
  \/ CheckPlaybook
  \/ RunAnsibleLint
  \/ ParseLint
  \/ LoadRules
  \/ ReadPlaybook
  \/ ApplyRules
  \/ Combine
  \/ GenerateReport
  \/ Finish

Spec == Init /\ [][Next]_vars

\* ==================================================== the scanner alone
\* Rules drawn for the scanner: a one-letter pattern, a two-letter pattern
\* in mixed case, the empty pattern (it matches at every offset of every
\* line) and a pattern re.compile rejects.
ScanRules ==
  { Rule("R1", <<"a">>, "HIGH"),
    Rule("R2", <<"A", "a">>, "LOW"),
    Rule("R3", <<>>, "MEDIUM"),
    Rule("R4", <<"a", "(">>, "LOW") }

\* __main__ at line 304, about to call apply_custom_rules, for every
\* playbook text of at most MaxLen characters and every list of at most
\* MaxRules rules; the linter ran and printed nothing.
InitScan ==
  /\ pc = "apply_rules"
  /\ playbook_content \in SeqsUpTo(ContentChars, MaxLen)
  /\ playbook = PlaybookFile(TRUE, TRUE, playbook_content)
  /\ custom_rules \in SeqsUpTo(ScanRules, MaxRules)
  /\ rules_file = RulesFile("json", "list", custom_rules)
  /\ lint_how = "ran"
  /\ lint_stdout = RawOutput("empty", "none", <<>>)
  /\ lint_exit_code = ExitSuccess
  /\ ansible_lint_issues = <<>>
  /\ custom_issues = <<>>
  /\ all_issues = <<>>
  /\ report = <<>>
  /\ report_file = <<>>
  /\ called = {"run_ansible_lint", "parse_ansible_lint_output",
               "load_custom_rules", "read_playbook_content"}
  /\ exit_status = ExitSuccess

NextScan == ApplyRules

SpecScan == InitScan /\ [][NextScan]_vars

\* ============================================================ claims
Called(f) == f \in called
Exited == pc = "exit"

\* apply_custom_rules was called and raised / returned.
ScanRaised == Called("apply_custom_rules") /\ Exited /\ ~Called("generate_report")
ScanReturned == Called("apply_custom_rules") /\ ~ScanRaised

IsRuleDict(rule) == rule.kind = "dict" /\ RuleKeys \subseteq rule.has /\ rule.patternIsStr
AllRuleDicts(rules) == \A j \in 1..Len(rules) : IsRuleDict(rules[j])
HasValidPattern(rule) == IsValidRegex(rule.pattern)
AllValidPatterns(rules) == \A j \in 1..Len(rules) : HasValidPattern(rules[j])

\* The (line number, rule index) pairs in the order line first, rule second.
Grid(n, m) == [k \in 1..(n * m) |-> <<((k - 1) \div m) + 1, ((k - 1) % m) + 1>>]

\* The pairs of the grid whose rule matches its line, in grid order.
HitPairs(lines, rules) ==
  SelectSeq(Grid(Len(lines), Len(rules)),
            LAMBDA p : ReSearch(rules[p[2]].pattern, lines[p[1]]) = "match")

\* C6: for rules with valid patterns, the findings apply_custom_rules
\* returns are one finding per (line, rule) pair that matches, in the
\* order of line number first and rule declaration order second; so their
\* number is at most lines * rules, their line numbers never decrease and
\* every line number is at least 1.
C6_ScanOrdered ==
  (ScanReturned /\ AllRuleDicts(custom_rules) /\ AllValidPatterns(custom_rules)) =>
    LET lines == SplitLines(playbook_content)
        hits  == HitPairs(lines, custom_rules)
        f     == custom_issues
    IN  /\ Len(f) <= Len(lines) * Len(custom_rules)
        /\ \A k \in 1..Len(f) : f[k].line >= 1 /\ f[k].line <= Len(lines)
        /\ \A k \in 1..(Len(f) - 1) : f[k].line <= f[k + 1].line
        /\ Len(f) = Len(hits)
        /\ \A k \in 1..Len(f) :
             f[k] = CustomFinding(custom_rules[hits[k][2]], hits[k][1],
                                  lines[hits[k][1]], PlaybookPath)

\* A scan of two lines by two valid rules that returned at least three
\* findings, one of them for a rule that matches its line at several
\* offsets.
C6_Witness ==
  /\ ScanReturned
  /\ AllRuleDicts(custom_rules) /\ AllValidPatterns(custom_rules)
  /\ Len(custom_rules) = 2 /\ custom_rules[1] # custom_rules[2]
  /\ Len(SplitLines(playbook_content)) = 2
  /\ Len(custom_issues) >= 3
  /\ \E j \in 1..2 :
       Cardinality(MatchOffsets(custom_rules[j].pattern,
                                SplitLines(playbook_content)[1])) >= 2

\* C9: with a rule whose pattern is no valid regular expression in the
\* list, apply_custom_rules does not raise, no finding carries the id of
\* an invalid rule, and the findings are those of the scan with the
\* invalid rules removed from the list.
C9_InvalidRuleSkipped ==
  (Called("apply_custom_rules") /\ AllRuleDicts(custom_rules)
     /\ ~AllValidPatterns(custom_rules)) =>
    LET valid == SelectSeq(custom_rules, HasValidPattern) IN
    /\ ~ScanRaised
    /\ \A k \in 1..Len(custom_issues) :
         \A j \in 1..Len(custom_rules) :
           ~HasValidPattern(custom_rules[j]) =>
             custom_issues[k].rule_id # custom_rules[j].id
    /\ custom_issues =
         ApplyCustomRules(playbook_content, valid, PlaybookPath).findings

\* A scan of two lines with an invalid rule declared before a valid one
\* that returned findings for both lines.
C9_Witness ==
  /\ ScanReturned
  /\ Len(custom_rules) = 2
  /\ ~HasValidPattern(custom_rules[1]) /\ HasValidPattern(custom_rules[2])
  /\ Len(SplitLines(playbook_content)) = 2
  /\ Len(custom_issues) = 2
  /\ custom_issues[1].line = 1 /\ custom_issues[2].line = 2

\* ------------------------------------------------ claims on the pipeline
LintFailedToExecute == lint_exit_code \in {LintNotFound, LintSpawnError}

\* C1: a run that ends exits with status 0 only when the linter was
\* executed and the merged issue list is empty, and exits with status 1
\* whenever the merged issue list is non-empty or run_ansible_lint returned
\* one of its sentinels.
C1_ExitStatusReflectsOutcome ==
  Exited =>
    /\ exit_status = ExitSuccess => (~LintFailedToExecute /\ all_issues = <<>>)
    /\ (all_issues # <<>> \/ LintFailedToExecute) => exit_status = ExitFailure

\* C2: when generate_report could not persist the report, the run neither
\* reaches its "finished successfully" end nor exits with status 0.
C2_NoSuccessWithoutReport ==
  (Called("generate_report") /\ report_file = <<>>) =>
    /\ pc # "finish"
    /\ Exited => exit_status # ExitSuccess

\* Every rule the run loaded is a dict with the four keys and a string
\* pattern (apply_custom_rules meets no TypeError).
RulesUsable == rules_file.state = "json" /\ rules_file.top = "list"
                 /\ AllRuleDicts(rules_file.elems)

\* C3: when run_ansible_lint could not execute the linter it returns its
\* sentinel (-1 not found, -2 other failure) with no output instead of
\* raising; the linter then contributes no finding, the run goes on to
\* load the rules, and with usable rules and a readable playbook it scans
\* and builds a report whose issues are exactly the scanner's findings.
C3_LinterFailureDegrades ==
  lint_how \in {"notfound", "spawnerror"} =>
    /\ lint_exit_code = (IF lint_how = "notfound" THEN LintNotFound
                         ELSE LintSpawnError)
    /\ lint_stdout = NoOutput
    /\ Called("parse_ansible_lint_output") => ansible_lint_issues = <<>>
    /\ Exited => Called("load_custom_rules")
    /\ (Exited /\ RulesUsable /\ playbook.readable) =>
         Called("apply_custom_rules") /\ Called("generate_report")
    /\ report # <<>> => report[1].issues = custom_issues
    /\ report_file # <<>> => report_file[1].issues = custom_issues

\* The linter was not found and the report on disk holds the scanner's
\* findings, of which there are some.
C3_Witness ==
  /\ lint_how = "notfound"
  /\ Exited
  /\ custom_issues # <<>>
  /\ report_file # <<>> /\ report_file[1].issues = custom_issues

\* The rules file is missing, no JSON, no list at the top, or holds an
\* element that is no object with the keys id, pattern, description and
\* severity.
LacksRequiredKey(elem) == elem.kind # "dict" \/ ~(RuleKeys \subseteq elem.has)
RulesFileInvalid ==
  \/ rules_file.state \in {"missing", "badjson"}
  \/ rules_file.state = "json" /\ rules_file.top # "list"
  \/ rules_file.state = "json" /\ rules_file.top = "list"
       /\ \E k \in 1..Len(rules_file.elems) : LacksRequiredKey(rules_file.elems[k])

\* C4: with such a rules file the run aborts with a nonzero status before
\* apply_custom_rules runs, and generate_report is never called.
C4_InvalidRulesAbort ==
  RulesFileInvalid =>
    /\ ~Called("apply_custom_rules")
    /\ ~Called("generate_report")
    /\ report_file = <<>>
    /\ Exited => exit_status # ExitSuccess

\* C5 as stated: with a missing or unreadable playbook nothing is ever
\* called (no linter, no rules load, no scan, no report) and the run
\* exits nonzero.
C5_AbortsBeforeAnyProcessing ==
  (~playbook.exists \/ ~playbook.readable) =>
    /\ called = {}
    /\ report_file = <<>>
    /\ Exited => exit_status # ExitSuccess

\* C5 amended: a missing playbook aborts the run with status 1 before
\* anything is called; a playbook that exists but cannot be read aborts it
\* with status 1 before any scan or report, and when the abort is at the
\* read, the linter was invoked and the rules file loaded before it.
C5_AbortsBeforeScan ==
  /\ ~playbook.exists =>
       /\ called = {}
       /\ report_file = <<>>
       /\ pc \in {"check_playbook", "exit"}
       /\ Exited => exit_status = ExitFailure
  /\ (playbook.exists /\ ~playbook.readable) =>
       /\ ~Called("apply_custom_rules")
       /\ ~Called("generate_report")
       /\ report_file = <<>>
       /\ Exited => exit_status = ExitFailure
       /\ Called("read_playbook_content") =>
            /\ Exited
            /\ Called("run_ansible_lint")
            /\ Called("load_custom_rules")

\* The run with an unreadable playbook has ended at the read.
C5_Witness ==
  /\ playbook.exists /\ ~playbook.readable
  /\ Exited
  /\ Called("read_playbook_content")
  /\ exit_status = ExitFailure

\* C7: the report generate_report builds, and the one it writes, has
\* status FAIL exactly when its issues are non-empty and PASS exactly when
\* they are empty.
StatusFromIssues(r) ==
  /\ r.status \in {"PASS", "FAIL"}
  /\ r.status = "FAIL" <=> r.issues # <<>>
  /\ r.status = "PASS" <=> r.issues = <<>>

C7_StatusFromEmptiness ==
  /\ report # <<>> => StatusFromIssues(report[1])
  /\ report_file # <<>> => StatusFromIssues(report_file[1])

\* A report with issues was written with status FAIL.
C7_Witness ==
  /\ report_file # <<>>
  /\ report_file[1].issues # <<>>
  /\ report_file[1].status = "FAIL"

\* C8: the issues of the report are the linter's findings followed by the
\* scanner's findings, each in its own order, nothing dropped or added.
IsLintThenCustom(issues) ==
  LET n == Len(ansible_lint_issues) IN
  /\ Len(issues) = n + Len(custom_issues)
  /\ \A i \in 1..n : issues[i] = ansible_lint_issues[i]
  /\ \A j \in 1..Len(custom_issues) : issues[n + j] = custom_issues[j]

C8_LintThenCustom ==
  /\ report # <<>> => IsLintThenCustom(report[1].issues)
  /\ report_file # <<>> => IsLintThenCustom(report_file[1].issues)

\* A written report that holds two linter findings and two scanner
\* findings.
C8_Witness ==
  /\ report_file # <<>>
  /\ Len(ansible_lint_issues) = 2 /\ ansible_lint_issues[1] # ansible_lint_issues[2]
  /\ Len(custom_issues) >= 2
  /\ Len(report_file[1].issues) = 2 + Len(custom_issues)

\* The whole output is a JSON list of objects the field mapping accepts.
OutputRecognized(raw) ==
  /\ raw.kind = "json" /\ raw.jt = "list"
  /\ \A k \in 1..Len(raw.items) : ~ItemRaises(raw.items[k])

\* C10: parse_ansible_lint_output returns an empty sequence for every
\* output that is not, as a whole, of a recognized shape.
C10_EmptyUnlessRecognized ==
  (Called("parse_ansible_lint_output") /\ ~OutputRecognized(lint_stdout)) =>
    ansible_lint_issues = <<>>

====
